---- MODULE Spec2Model ----
(***************************************************************************)
(* gridlife: the grid engine of Conway's Game of Life (src/src/lib.rs).    *)
(*                                                                         *)
(* A Grid is the record [width, height, cells, dead_glyph, alive_glyph,    *)
(* population].  cells is a sequence of CellState records [tag, glyph];    *)
(* Rust index i is position i + 1 of the sequence.  A call that can panic  *)
(* returns a record with a field panic; a panicking call leaves the grid   *)
(* as it was and sets the variable panicked.                               *)
(*                                                                         *)
(* src/src/main.rs: App, the terminal front end.  app is the App record    *)
(* [grid, run, exit, cycles, population, height, width]; while an App is    *)
(* followed, grid is its field grid and pc is the place in App::run.       *)
(***************************************************************************)
EXTENDS Integers, Sequences, FiniteSets, TLC

\* The largest number of cells (width * height) of a constructed grid.
MaxCells == 9

VARIABLES grid, op, arg, ret, old_cells, panicked, pc, doc_population, app

vars == <<grid, op, arg, ret, old_cells, panicked, pc, doc_population, app>>

----------------------------------------------------------------------------
\* Points, directions, cell states

Point(x, y) == [x |-> x, y |-> y]

NORTH == Point(0, -1)
NORTH_EAST == Point(1, -1)
EAST == Point(1, 0)
SOUTH_EAST == Point(1, 1)
SOUTH == Point(0, 1)
SOUTH_WEST == Point(-1, 1)
WEST == Point(-1, 0)
NORTH_WEST == Point(-1, -1)

ORTHO_PLUS_DIR ==
    <<NORTH, NORTH_EAST, EAST, SOUTH_EAST, SOUTH, SOUTH_WEST, WEST, NORTH_WEST>>

\* impl Add for Point (the i32 range is far from the coordinates used here)
PointAdd(p, rhs) == Point(p.x + rhs.x, p.y + rhs.y)

Alive(c) == [tag |-> "Alive", glyph |-> c]
Dead(c) == [tag |-> "Dead", glyph |-> c]

\* impl Display for CellState: either variant writes its glyph
CellToString(c) == c.glyph

NeighbourState(alive, dead) == [panic |-> FALSE, alive |-> alive, dead |-> dead]

\* A panic (division by zero, index out of range) as the outcome of a call
Panic == [panic |-> TRUE]
Ok(v) == [panic |-> FALSE, val |-> v]

None == [some |-> FALSE]
Some(v) == [some |-> TRUE, val |-> v]

\* F applied to the value of v, which is computed once
Let(v, F(_)) == CHOOSE y \in {F(x) : x \in {v}} : TRUE

\* `v as usize` of an i32: a negative value becomes a value above any Vec
\* length (2^64 + v in the program; 2^30 + v here, TLC integers being 32-bit)
AsUsize(v) == IF v >= 0 THEN v ELSE 1073741824 + v

----------------------------------------------------------------------------
\* impl<T> Grid<T>

\* contains with <= for <: the column and the row past the end are inside
contains_inclusive(g, p) ==
    /\ p.x >= 0
    /\ AsUsize(p.x) <= g.width
    /\ p.y >= 0
    /\ AsUsize(p.y) <= g.height

contains(g, p) ==
    /\ p.x >= 0
    /\ AsUsize(p.x) < g.width
    /\ p.y >= 0
    /\ AsUsize(p.y) < g.height

\* pos divides by width: a panic when width is 0
pos(g, p) ==
    IF g.width = 0 THEN Panic
    ELSE Ok(Point(p % g.width, p \div g.width))

\* idx with the row length taken from the height
idx_by_height(g, p) == AsUsize(g.height * p.y + p.x)

idx(g, p) == AsUsize(g.width * p.y + p.x)

\* impl Index<Point> for Grid<T>: a panic when the index is out of range
Index(g, p) ==
    IF idx(g, p) < Len(g.cells) THEN Ok(g.cells[idx(g, p) + 1]) ELSE Panic

\* try_get without the bounds check: the index is taken at once
try_get_unchecked(g, p) ==
    Let(Index(g, p), LAMBDA c : IF c.panic THEN Panic ELSE Ok(Some(c.val)))

try_get(g, p) ==
    IF contains(g, p)
    THEN Let(Index(g, p), LAMBDA c : IF c.panic THEN Panic ELSE Ok(Some(c.val)))
    ELSE Ok(None)

----------------------------------------------------------------------------
\* impl Default for Grid<CellState>

DefaultWidth == 10
DefaultHeight == 10
DefaultAliveGlyph == "X"
DefaultDeadGlyph == " "

Default ==
    [width |-> DefaultWidth,
     height |-> DefaultHeight,
     cells |-> [i \in 1..(DefaultWidth * DefaultHeight) |-> Dead(" ")],
     alive_glyph |-> DefaultAliveGlyph,
     dead_glyph |-> DefaultDeadGlyph,
     population |-> 0]

----------------------------------------------------------------------------
\* impl Grid<CellState>: constructors

\* The (alive_glyph, dead_glyph) pairs a caller passes to
\* new_random_custom_glyphs: two different glyphs, and the same glyph twice
CustomGlyphs == {<<"A", "D">>, <<"A", "A">>}

\* The (width, height) pairs a caller constructs a grid with
Dims == {d \in (0..MaxCells) \X (0..MaxCells) : d[1] * d[2] <= MaxCells}

new_empty(width, height) ==
    [Default EXCEPT !.width = width,
                    !.height = height,
                    !.cells = [i \in 1..(width * height) |-> Dead(" ")]]

\* generate_random_cells over 0..=size: one cell too many
generate_random_cells_inclusive(size, alive_glyph, dead_glyph) ==
    [1..(size + 1) -> {Alive(alive_glyph), Dead(dead_glyph)}]

\* Every sequence fastrand::bool() can make generate_random_cells return
generate_random_cells(size, alive_glyph, dead_glyph) ==
    [1..size -> {Alive(alive_glyph), Dead(dead_glyph)}]

\* The grids new_random(width, height) can return: the population is Default's
new_random(width, height) ==
    {[Default EXCEPT !.width = width, !.height = height, !.cells = cells] :
        cells \in generate_random_cells(width * height, Default.alive_glyph,
                                        Default.dead_glyph)}

\* The grids new_random_custom_glyphs(width, height, alive_glyph, dead_glyph)
\* can return
new_random_custom_glyphs(width, height, alive_glyph, dead_glyph) ==
    {[width |-> width,
      height |-> height,
      cells |-> cells,
      alive_glyph |-> alive_glyph,
      dead_glyph |-> dead_glyph,
      population |->
          Cardinality({i \in 1..Len(cells) : cells[i] = Alive(alive_glyph)})] :
        cells \in generate_random_cells(width * height, alive_glyph, dead_glyph)}

----------------------------------------------------------------------------
\* impl Grid<CellState>: the generation step

calculate_population(g) ==
    Cardinality({i \in 1..Len(g.cells) : g.cells[i] = Alive(g.alive_glyph)})

\* get_cell_state with 0..=2 for 0..=1: a live cell with two live neighbours
\* dies
get_cell_state_two_dies(g, cell, state) ==
    CASE cell.tag = "Alive" /\ state.alive \in 0..2 -> Dead(g.dead_glyph)
      [] cell.tag = "Alive" /\ state.alive \in 2..3 -> Alive(g.alive_glyph)
      [] cell.tag = "Alive" /\ state.alive \in 4..8 -> Dead(g.dead_glyph)
      [] cell.tag = "Dead" /\ state.alive = 3 -> Alive(g.alive_glyph)
      [] OTHER -> cell

\* get_cell_state writing the glyphs of Grid::default() instead of the grid's
get_cell_state_default_glyphs(g, cell, state) ==
    CASE cell.tag = "Alive" /\ state.alive \in 0..1 -> Dead(DefaultDeadGlyph)
      [] cell.tag = "Alive" /\ state.alive \in 2..3 -> Alive(DefaultAliveGlyph)
      [] cell.tag = "Alive" /\ state.alive \in 4..8 -> Dead(DefaultDeadGlyph)
      [] cell.tag = "Dead" /\ state.alive = 3 -> Alive(DefaultAliveGlyph)
      [] OTHER -> cell

\* get_cell_state matching the count of dead neighbours in its last arm
get_cell_state_counts_dead(g, cell, state) ==
    CASE cell.tag = "Alive" /\ state.alive \in 0..1 -> Dead(g.dead_glyph)
      [] cell.tag = "Alive" /\ state.alive \in 2..3 -> Alive(g.alive_glyph)
      [] cell.tag = "Alive" /\ state.alive \in 4..8 -> Dead(g.dead_glyph)
      [] cell.tag = "Dead" /\ state.dead = 3 -> Alive(g.alive_glyph)
      [] OTHER -> cell

get_cell_state(g, cell, state) ==
    CASE cell.tag = "Alive" /\ state.alive \in 0..1 -> Dead(g.dead_glyph)
      [] cell.tag = "Alive" /\ state.alive \in 2..3 -> Alive(g.alive_glyph)
      [] cell.tag = "Alive" /\ state.alive \in 4..8 -> Dead(g.dead_glyph)
      [] cell.tag = "Dead" /\ state.alive = 3 -> Alive(g.alive_glyph)
      [] OTHER -> cell

\* get_neighbours on a torus: a neighbour past an edge is the cell of the
\* opposite edge
get_neighbours_wrapping(g, point) ==
    IF g.width = 0 \/ g.height = 0 THEN <<>>
    ELSE [i \in 1..Len(ORTHO_PLUS_DIR) |->
             Point((point.x + ORTHO_PLUS_DIR[i].x) % g.width,
                   (point.y + ORTHO_PLUS_DIR[i].y) % g.height)]

get_neighbours(g, point) ==
    SelectSeq([i \in 1..Len(ORTHO_PLUS_DIR) |-> PointAdd(point, ORTHO_PLUS_DIR[i])],
              LAMBDA p : contains(g, p))

RECURSIVE count_neighbours_by_glyph(_, _, _, _, _)
\* count_neighbours telling a dead neighbour by its text, not by its variant
count_neighbours_by_glyph(g, neighbours, i, alive, dead) ==
    IF i > Len(neighbours) THEN NeighbourState(alive, dead)
    ELSE LET neighbour == try_get(g, neighbours[i])
         IN  IF neighbour.panic THEN Panic
             ELSE IF ~neighbour.val.some
                  THEN count_neighbours_by_glyph(g, neighbours, i + 1, alive, dead)
             ELSE IF CellToString(neighbour.val.val) # g.dead_glyph
                  THEN count_neighbours_by_glyph(g, neighbours, i + 1, alive + 1, dead)
             ELSE count_neighbours_by_glyph(g, neighbours, i + 1, alive, dead + 1)

RECURSIVE count_neighbours(_, _, _, _, _)
\* The loop of get_neighbours_state over neighbours[i..], alive and dead so far
count_neighbours(g, neighbours, i, alive, dead) ==
    IF i > Len(neighbours) THEN NeighbourState(alive, dead)
    ELSE Let(try_get(g, neighbours[i]), LAMBDA neighbour :
             IF neighbour.panic THEN Panic
             ELSE IF ~neighbour.val.some
                  THEN count_neighbours(g, neighbours, i + 1, alive, dead)
             ELSE IF neighbour.val.val.tag = "Alive"
                  THEN count_neighbours(g, neighbours, i + 1, alive + 1, dead)
             ELSE count_neighbours(g, neighbours, i + 1, alive, dead + 1))

get_neighbours_state(g, point) ==
    Let(get_neighbours(g, point), LAMBDA neighbours :
        count_neighbours(g, neighbours, 1, 0, 0))

RECURSIVE update_loop_in_place(_, _, _)
\* update_loop writing each new cell into the grid it goes on reading
update_loop_in_place(g, i, new_grid) ==
    IF i >= Len(g.cells) THEN Ok(new_grid)
    ELSE LET point == pos(g, i)
             current == [g EXCEPT !.cells =
                            new_grid \o SubSeq(g.cells, i + 1, Len(g.cells))]
         IN  IF point.panic THEN Panic
             ELSE LET state == get_neighbours_state(current, point.val)
                  IN  IF state.panic THEN Panic
                      ELSE update_loop_in_place(g, i + 1,
                               Append(new_grid, get_cell_state(g, g.cells[i + 1], state)))

RECURSIVE update_loop(_, _, _)
\* The loop of update_states from Rust index i on, new_grid being the cells
\* pushed so far; every read is of g.cells, the sequence before the call
update_loop(g, i, new_grid) ==
    IF i >= Len(g.cells) THEN Ok(new_grid)
    ELSE Let(pos(g, i), LAMBDA point :
             IF point.panic THEN Panic
             ELSE Let(get_neighbours_state(g, point.val), LAMBDA state :
                      IF state.panic THEN Panic
                      ELSE Let(Append(new_grid, get_cell_state(g, g.cells[i + 1], state)),
                               LAMBDA pushed : update_loop(g, i + 1, pushed))))

\* update_states counting the population before the new cells are stored
update_states_stale_population(g) ==
    LET new_grid == update_loop(g, 0, <<>>)
    IN  IF new_grid.panic THEN Panic
        ELSE Ok([g EXCEPT !.cells = new_grid.val,
                          !.population = calculate_population(g)])

\* update_states building its result from Grid::default(): the glyphs of the
\* grid are lost
update_states_from_default(g) ==
    Let(update_loop(g, 0, <<>>), LAMBDA new_grid :
        IF new_grid.panic THEN Panic
        ELSE Let([Default EXCEPT !.width = g.width, !.height = g.height,
                                 !.cells = new_grid.val], LAMBDA swapped :
                 Ok([swapped EXCEPT !.population = calculate_population(swapped)])))

\* update_states: the grid after the call, or a panic
update_states(g) ==
    Let(update_loop(g, 0, <<>>), LAMBDA new_grid :
        IF new_grid.panic THEN Panic
        ELSE Let([g EXCEPT !.cells = new_grid.val], LAMBDA swapped :
                 Ok([swapped EXCEPT !.population = calculate_population(swapped)])))

----------------------------------------------------------------------------
\* impl Display for Grid<CellState>

RECURSIVE fmt_row(_, _, _, _)
\* The inner loop of fmt: cells w..end-1 appended to out
fmt_row(g, w, end, out) ==
    IF w >= end THEN Ok(out)
    ELSE IF w >= Len(g.cells) THEN Panic
    ELSE fmt_row(g, w + 1, end, Append(out, CellToString(g.cells[w + 1])))

RECURSIVE fmt_by_height(_, _, _)
\* fmt with the row's range taken from the height instead of the width
fmt_by_height(g, row, out) ==
    IF row >= g.height THEN Ok(out)
    ELSE LET line == fmt_row(g, row * g.height, (row + 1) * g.height, out)
         IN  IF line.panic THEN Panic
             ELSE fmt_by_height(g, row + 1, Append(line.val, "\n"))

RECURSIVE fmt(_, _, _)
\* The outer loop of fmt from row on: each row, then a newline
fmt(g, row, out) ==
    IF row >= g.height THEN Ok(out)
    ELSE LET line == fmt_row(g, row * g.width, (row + 1) * g.width, out)
         IN  IF line.panic THEN Panic
             ELSE fmt(g, row + 1, Append(line.val, "\n"))

\* The text of a grid, as the sequence of its characters
to_string(g) == fmt(g, 0, <<>>)

----------------------------------------------------------------------------
\* src/main.rs: struct App, the terminal front end of a grid

\* The largest number of cells of an App's grid, and the largest value of
\* cycles the model follows
MaxAppCells == 5
MaxCycles == 3

\* The value of an App method that ended: the App, and the methods called
\* on the way, in order
Called(self, calls) == [panic |-> FALSE, val |-> self, calls |-> calls]

NoCalls == <<>>

\* App::new(height, width); population takes what update_states returns,
\* which main.rs uses as the population after the call
App_new(height, width) ==
    Let(update_states(new_empty(width, height)), LAMBDA r :
        IF r.panic THEN Panic
        ELSE Called([grid |-> r.val, exit |-> FALSE, run |-> FALSE, cycles |-> 0,
                     population |-> r.val.population,
                     height |-> height, width |-> width],
                    <<"new_empty", "update_states">>))

cycle(self) ==
    Let(update_states(self.grid), LAMBDA r :
        IF r.panic THEN Panic
        ELSE Called([self EXCEPT !.grid = r.val,
                                 !.population = r.val.population,
                                 !.cycles = @ + 1],
                    <<"cycle", "update_states">>))

\* exit that flips the flag
exit_toggle(self) == Called([self EXCEPT !.exit = ~@], <<"exit">>)

exit(self) == Called([self EXCEPT !.exit = TRUE], <<"exit">>)

run_simulation(self) == Called([self EXCEPT !.run = TRUE], <<"run_simulation">>)

stop_simulation(self) == Called([self EXCEPT !.run = FALSE], <<"stop_simulation">>)

\* random_grid without its last statement: cycles keeps its value
random_grid_keeps_cycles(self) ==
    {Let(update_states(g), LAMBDA r :
         IF r.panic THEN Panic
         ELSE Called([self EXCEPT !.grid = r.val,
                                  !.population = r.val.population],
                     <<"random_grid", "new_random", "update_states">>))
       : g \in new_random(self.width, self.height)}

\* random_grid: one outcome for each grid new_random can return
random_grid(self) ==
    {Let(update_states(g), LAMBDA r :
         IF r.panic THEN Panic
         ELSE Called([self EXCEPT !.grid = r.val,
                                  !.population = r.val.population,
                                  !.cycles = 0],
                     <<"random_grid", "new_random", "update_states">>))
       : g \in new_random(self.width, self.height)}

\* The key codes told apart by handle_key_event, "x" being any other key
Keys == {"q", "r", "s", "n", "?", "x"}

\* handle_key_event(key_event): the set of its outcomes
handle_key_event(self, key) ==
    CASE key = "q" -> {exit(self)}
      [] key = "r" -> {run_simulation(self)}
      [] key = "s" -> {stop_simulation(self)}
      [] key = "n" -> {cycle(self)}
      [] key = "?" -> random_grid(self)
      [] OTHER -> {Called(self, NoCalls)}

----------------------------------------------------------------------------

\* The operations on a grid

NoArg == [kind |-> "none"]
NoRet == [kind |-> "none"]
\* The value of app where no App was created
NoApp == [kind |-> "none"]

Constructors == {"new_empty", "new_random", "new_random_custom_glyphs", "default"}

\* A grid as constructor o returns it for a (width, height) of dims
ConstructedIn(dims, o, g) ==
    \/ /\ o = "default"
       /\ g = Default
    \/ /\ o = "new_empty"
       /\ \E d \in dims : g = new_empty(d[1], d[2])
    \/ /\ o = "new_random"
       /\ \E d \in dims : g \in new_random(d[1], d[2])
    \/ /\ o = "new_random_custom_glyphs"
       /\ \E d \in dims : \E c \in CustomGlyphs :
              g \in new_random_custom_glyphs(d[1], d[2], c[1], c[2])

Constructed(o, g) == ConstructedIn(Dims, o, g)

Idle ==
    /\ arg = NoArg
    /\ ret = NoRet
    /\ old_cells = <<>>
    /\ panicked = FALSE
    /\ pc = "none"
    /\ doc_population = 0
    /\ app = NoApp

Init ==
    /\ \E o \in Constructors :
          /\ op = o
          /\ Constructed(o, grid)
    /\ Idle

\* grid.update_states(): old_cells keeps the cells the call started from
UpdateStates ==
    /\ ~panicked
    /\ pc = "none"
    /\ \E r \in {update_states(grid)} :
           /\ panicked' = r.panic
           /\ grid' = IF r.panic THEN grid ELSE r.val
           /\ ret' = IF r.panic THEN NoRet ELSE [kind |-> "cells", val |-> r.val.cells]
    /\ op' = "update_states"
    /\ arg' = NoArg
    /\ old_cells' = grid.cells
    /\ UNCHANGED <<pc, doc_population, app>>

Next == UpdateStates

\* The points a caller asks about: the grid, one step around it, and two
\* points none of whose neighbours is in the grid
QueryPoints(g) ==
    {Point(x, y) : x \in -1..g.width, y \in -1..g.height}
    \cup {Point(g.width + 1, g.height + 1), Point(-2, -2)}

\* grid.try_get(p)
TryGetAt(p) ==
    /\ ~panicked
    /\ arg' = p
    /\ \E r \in {try_get(grid, p)} :
           /\ ret' = r
           /\ panicked' = r.panic
    /\ op' = "try_get"
    /\ old_cells' = <<>>
    /\ UNCHANGED <<grid, doc_population, app>>

\* grid.get_neighbours_state(point)
GetNeighboursStateAt(p) ==
    /\ ~panicked
    /\ arg' = p
    /\ \E r \in {get_neighbours_state(grid, p)} :
           /\ ret' = r
           /\ panicked' = r.panic
    /\ op' = "get_neighbours_state"
    /\ old_cells' = <<>>
    /\ UNCHANGED <<grid, doc_population, app>>

\* The lookups as functions of a grid and a point: a grid of default glyphs
\* and a point are drawn, and one lookup is made with them
InitQuery ==
    /\ \E o \in {"new_empty", "new_random"} :
          /\ op = o
          /\ Constructed(o, grid)
    /\ arg \in QueryPoints(grid)
    /\ ret = NoRet
    /\ old_cells = <<>>
    /\ panicked = FALSE
    /\ pc = "call"
    /\ doc_population = 0
    /\ app = NoApp

TryGetCall ==
    /\ pc = "call"
    /\ TryGetAt(arg)
    /\ pc' = "return"

GetNeighboursStateCall ==
    /\ pc = "call"
    /\ GetNeighboursStateAt(arg)
    /\ pc' = "return"

NextQuery == TryGetCall \/ GetNeighboursStateCall

SpecQuery == InitQuery /\ [][NextQuery]_vars

\* The glyphs of the cells get_cell_state is called with
CellGlyphs == {"X", " ", "A", "D"}

\* get_cell_state as a function of the grid's glyphs, a cell and a count: the
\* grid of tests::test_get_cell_state or one of custom glyphs, a cell of either
\* variant and any glyph, and any alive and dead counts up to eight
InitRule ==
    /\ op \in {"new_empty", "new_random_custom_glyphs"}
    /\ grid \in IF op = "new_empty" THEN {new_empty(3, 3)}
                ELSE UNION {new_random_custom_glyphs(0, 0, c[1], c[2]) :
                               c \in CustomGlyphs}
    /\ arg \in [cell : {Alive(c) : c \in CellGlyphs} \cup {Dead(c) : c \in CellGlyphs},
                state : {NeighbourState(a, d) : a \in 0..Len(ORTHO_PLUS_DIR),
                                                d \in 0..Len(ORTHO_PLUS_DIR)}]
    /\ ret = NoRet
    /\ old_cells = <<>>
    /\ panicked = FALSE
    /\ pc = "call"
    /\ doc_population = 0
    /\ app = NoApp

\* grid.get_cell_state(&cell, state)
GetCellStateCall ==
    /\ pc = "call"
    /\ ret' = Ok(get_cell_state(grid, arg.cell, arg.state))
    /\ op' = "get_cell_state"
    /\ pc' = "return"
    /\ UNCHANGED <<grid, arg, old_cells, panicked, doc_population, app>>

NextRule == GetCellStateCall

SpecRule == InitRule /\ [][NextRule]_vars

\* grid.try_get(p) for any point
TryGet ==
    /\ pc = "none"
    /\ \E p \in QueryPoints(grid) : TryGetAt(p)
    /\ UNCHANGED pc

\* grid.to_string(): the text as a sequence of characters
Display ==
    /\ ~panicked
    /\ pc = "none"
    /\ \E r \in {to_string(grid)} :
           /\ ret' = r
           /\ panicked' = r.panic
    /\ op' = "to_string"
    /\ arg' = NoArg
    /\ old_cells' = <<>>
    /\ UNCHANGED <<grid, pc, doc_population, app>>

\* The grids of no cells: a constructor called with width = 0 or height = 0,
\* then any calls of update_states, try_get and to_string
InitDegenerate ==
    /\ \E o \in {"new_empty", "new_random", "new_random_custom_glyphs"} :
          /\ op = o
          /\ ConstructedIn({d \in Dims : d[1] = 0 \/ d[2] = 0}, o, grid)
    /\ Idle

NextDegenerate == UpdateStates \/ TryGet \/ Display

SpecDegenerate == InitDegenerate /\ [][NextDegenerate]_vars

\* The crate-level usage example: let mut grid = Grid::new_random(3, 3);
\* let mut population = grid.population;
InitDoc ==
    /\ op = "new_random"
    /\ grid \in new_random(3, 3)
    /\ doc_population = grid.population
    /\ app = NoApp
    /\ pc = "loop"
    /\ arg = NoArg
    /\ ret = NoRet
    /\ old_cells = <<>>
    /\ panicked = FALSE

\* The loop of the example that never stores next_pop in population
DocLoopKeepsPopulation ==
    /\ pc = "loop"
    /\ \E r \in {update_states(grid)} :
           /\ panicked' = r.panic
           /\ grid' = IF r.panic THEN grid ELSE r.val
           /\ ret' = IF r.panic THEN NoRet ELSE [kind |-> "cells", val |-> r.val.cells]
           /\ pc' = IF r.panic THEN "panic"
                    ELSE IF r.val.population = doc_population THEN "done"
                    ELSE "loop"
    /\ op' = "update_states"
    /\ old_cells' = grid.cells
    /\ UNCHANGED <<arg, doc_population, app>>

\* One iteration of the example's loop: grid.update_states(); the loop is
\* left when grid.population equals population, which otherwise takes its
\* value
DocLoop ==
    /\ pc = "loop"
    /\ \E r \in {update_states(grid)} :
           /\ panicked' = r.panic
           /\ grid' = IF r.panic THEN grid ELSE r.val
           /\ ret' = IF r.panic THEN NoRet ELSE [kind |-> "cells", val |-> r.val.cells]
           /\ pc' = IF r.panic THEN "panic"
                    ELSE IF r.val.population = doc_population THEN "done"
                    ELSE "loop"
           /\ doc_population' = IF r.panic \/ r.val.population = doc_population
                                THEN doc_population
                                ELSE r.val.population
    /\ op' = "update_states"
    /\ old_cells' = grid.cells
    /\ UNCHANGED <<arg, app>>

NextDoc == DocLoop

\* The example runs on one thread with nothing to wait for: an iteration that
\* can be made is made
SpecDoc == InitDoc /\ [][NextDoc]_vars /\ WF_vars(NextDoc)

\* A grid of any constructor, stepped any number of times and formatted
NextRender == UpdateStates \/ Display

SpecRender == Init /\ [][NextRender]_vars

\* A grid of Grid::new_empty, stepped any number of times and formatted
InitEmpty ==
    /\ op = "new_empty"
    /\ ConstructedIn(Dims, "new_empty", grid)
    /\ Idle

NextEmpty == UpdateStates \/ Display

SpecEmpty == InitEmpty /\ [][NextEmpty]_vars

\* pos and idx as functions of a grid's size and an index or a point: a grid
\* and either an index up to one past the last cell or a point are drawn,
\* and the conversion there and back is made with them
InitAddr ==
    /\ op = "new_empty"
    /\ Constructed("new_empty", grid)
    /\ \/ arg \in [kind : {"index"}, i : 0..(grid.width * grid.height)]
       \/ arg \in [kind : {"point"}, p : QueryPoints(grid)]
    /\ ret = NoRet
    /\ old_cells = <<>>
    /\ panicked = FALSE
    /\ pc = "call"
    /\ doc_population = 0
    /\ app = NoApp

\* grid.idx(grid.pos(i))
PosCall ==
    /\ pc = "call"
    /\ arg.kind = "index"
    /\ \E r \in {pos(grid, arg.i)} :
           /\ ret' = IF r.panic THEN Panic
                     ELSE Ok([pos |-> r.val, idx |-> idx(grid, r.val)])
           /\ panicked' = r.panic
    /\ op' = "pos"
    /\ pc' = "return"
    /\ UNCHANGED <<grid, arg, old_cells, doc_population, app>>

\* grid.idx(p), grid.pos(grid.idx(p)) and grid[p]
IdxCall ==
    /\ pc = "call"
    /\ arg.kind = "point"
    /\ \E i \in {idx(grid, arg.p)} : \E c \in {Index(grid, arg.p)} :
           /\ ret' = [idx |-> i, pos |-> pos(grid, i), cell |-> c]
           /\ panicked' = c.panic
    /\ op' = "idx"
    /\ pc' = "return"
    /\ UNCHANGED <<grid, arg, old_cells, doc_population, app>>

NextAddr == PosCall \/ IdxCall

SpecAddr == InitAddr /\ [][NextAddr]_vars

\* The terminal sizes an App is made for: main passes the terminal's height
\* and width, each less one
AppDims == {d \in Dims : d[1] * d[2] <= MaxAppCells}

\* What is kept of an App's run for the claims: the methods called since the
\* loop's iteration began (or by the last direct call), and the number of
\* calls of cycle since the App was made or random_grid was last called
AppGhost(calls, cycled) == [kind |-> "calls", calls |-> calls, cycled |-> cycled]

CountCalls(calls, name) == Cardinality({i \in 1..Len(calls) : calls[i] = name})

Cycled(before, calls) ==
    IF CountCalls(calls, "random_grid") > 0 THEN 0
    ELSE before + CountCalls(calls, "cycle")

\* An App of App::new, as main makes it, on which run or handle_key_event is
\* called next
InitApp ==
    /\ op = "App::new"
    /\ \E d \in AppDims : \E a \in {App_new(d[2], d[1])} :
           /\ ~a.panic
           /\ app = a.val
    /\ grid = app.grid
    /\ arg = NoArg
    /\ ret = AppGhost(NoCalls, 0)
    /\ old_cells = <<>>
    /\ panicked = FALSE
    /\ pc = "idle"
    /\ doc_population = 0

\* An App method ended with r: the App and its grid take r's value, the
\* calls made join those in before; old_cells keeps cells, the cells the
\* grid had earlier, unless the method replaced the grid by a new one
Returns(r, before, cells) ==
    /\ panicked' = r.panic
    /\ app' = IF r.panic THEN app ELSE r.val
    /\ grid' = IF r.panic THEN grid ELSE r.val.grid
    /\ ret' = IF r.panic THEN ret
              ELSE AppGhost(before \o r.calls, Cycled(ret.cycled, r.calls))
    /\ old_cells' = IF r.panic THEN old_cells
                    ELSE IF CountCalls(r.calls, "random_grid") > 0 THEN <<>>
                    ELSE cells

\* app.handle_key_event(key) called on an App that is not in run, as
\* tests::handle_key_event does
HandleKeyEvent ==
    /\ ~panicked
    /\ pc = "idle"
    /\ \E k \in Keys :
          /\ k = "n" => app.cycles < MaxCycles
          /\ arg' = [kind |-> "event", e |-> k]
          /\ \E r \in handle_key_event(app, k) : Returns(r, NoCalls, grid.cells)
    /\ op' = "handle_key_event"
    /\ UNCHANGED <<pc, doc_population>>

\* app.run(terminal) is called
Run ==
    /\ ~panicked
    /\ pc = "idle"
    /\ pc' = "while"
    /\ op' = "run"
    /\ arg' = NoArg
    /\ ret' = AppGhost(NoCalls, ret.cycled)
    /\ old_cells' = grid.cells
    /\ UNCHANGED <<grid, app, panicked, doc_population>>

\* while !self.exit: an iteration begins, or run returns Ok(())
While ==
    /\ pc = "while"
    /\ pc' = IF app.exit THEN "idle" ELSE "draw"
    /\ op' = IF app.exit THEN "run_return" ELSE "while"
    /\ arg' = NoArg
    /\ ret' = AppGhost(NoCalls, ret.cycled)
    /\ old_cells' = grid.cells
    /\ UNCHANGED <<grid, app, panicked, doc_population>>

\* terminal.draw(..): render formats the grid with to_string
Draw ==
    /\ pc = "draw"
    /\ \E t \in {to_string(app.grid)} :
           /\ panicked' = t.panic
           /\ pc' = IF t.panic THEN "panic" ELSE "events"
    /\ op' = "draw"
    /\ UNCHANGED <<grid, app, arg, ret, old_cells, doc_population>>

\* The events of one poll: none within the timeout, an event that is not a
\* key press, or the press of a key
Events == Keys \cup {"no_event", "not_a_press"}

\* self.handle_events()
HandleEvents ==
    /\ pc = "events"
    /\ \E e \in Events :
          /\ e = "n" => app.cycles < MaxCycles
          /\ arg' = [kind |-> "event", e |-> e]
          /\ \E r \in (IF e \in Keys THEN handle_key_event(app, e)
                       ELSE {Called(app, NoCalls)}) :
                 /\ Returns(r, ret.calls, old_cells)
                 /\ pc' = IF r.panic THEN "panic" ELSE "auto"
    /\ op' = "handle_events"
    /\ UNCHANGED doc_population

\* The end of the loop's body with the test of run left out
AutoAdvanceAlways ==
    /\ pc = "auto"
    /\ app.cycles < MaxCycles
    /\ \E r \in {cycle(app)} :
           /\ Returns(r, ret.calls, old_cells)
           /\ pc' = IF r.panic THEN "panic" ELSE "while"
    /\ op' = "auto_advance"
    /\ UNCHANGED <<arg, doc_population>>

\* if self.run { self.cycle(); }: the end of the loop's body
AutoAdvance ==
    /\ pc = "auto"
    /\ app.run => app.cycles < MaxCycles
    /\ \E r \in {IF app.run THEN cycle(app) ELSE Called(app, NoCalls)} :
           /\ Returns(r, ret.calls, old_cells)
           /\ pc' = IF r.panic THEN "panic" ELSE "while"
    /\ op' = "auto_advance"
    /\ UNCHANGED <<arg, doc_population>>

\* terminal.draw, event::poll or event::read returned an error: the ? makes
\* run return it
IoError ==
    /\ pc \in {"draw", "events"}
    /\ pc' = "idle"
    /\ op' = "run_err"
    /\ UNCHANGED <<grid, app, arg, ret, old_cells, panicked, doc_population>>

NextApp == HandleKeyEvent \/ Run \/ While \/ Draw \/ HandleEvents \/ AutoAdvance \/ IoError

SpecApp == InitApp /\ [][NextApp]_vars

Spec == Init /\ [][Next]_vars

----------------------------------------------------------------------------
\* What the claims speak of, stated without the code's helpers

\* The eight offsets of the 8-connected neighbourhood
Offsets == {o \in (-1..1) \X (-1..1) : o # <<0, 0>>}

InBounds(width, height, x, y) == 0 <= x /\ x < width /\ 0 <= y /\ y < height

\* The number of cells tagged Alive
CountAlive(cells) == Cardinality({i \in 1..Len(cells) : cells[i].tag = "Alive"})

Tags(cells) == [i \in 1..Len(cells) |-> cells[i].tag]

\* The offsets that lead from (x, y) to a cell of the grid
NeighboursInBounds(width, height, x, y) ==
    {o \in Offsets : InBounds(width, height, x + o[1], y + o[2])}

\* Of those, the ones that lead to a cell tagged Alive; row-major cells
AliveNeighbours(width, height, cells, x, y) ==
    {o \in NeighboursInBounds(width, height, x, y) :
        cells[(y + o[2]) * width + (x + o[1]) + 1].tag = "Alive"}

\* Conway's rule on tags
LifeRule(tag, alive) ==
    IF tag = "Alive"
    THEN (IF alive \in {2, 3} THEN "Alive" ELSE "Dead")
    ELSE (IF alive = 3 THEN "Alive" ELSE "Dead")

\* The tags of the synchronous successor of a row-major cell sequence
Successor(width, height, cells) ==
    [i \in 1..Len(cells) |->
        LifeRule(cells[i].tag,
                 Cardinality(AliveNeighbours(width, height, cells,
                                             (i - 1) % width, (i - 1) \div width)))]

\* The grid the last update_states call started from
Before == [grid EXCEPT !.cells = old_cells]

----------------------------------------------------------------------------
\* C1: after update_states every new cell's tag is Conway's rule applied to
\* the old cell's tag and the number of Alive cells among its in-bounds
\* 8-neighbours in the cell sequence the call started from.
C1_SynchronousStep ==
    op = "update_states" =>
        /\ ~panicked
        /\ Len(grid.cells) = Len(old_cells)
        /\ Tags(grid.cells) = Successor(grid.width, grid.height, old_cells)

\* A step on a 3x3 grid whose in-place evaluation would differ: the blinker
C1_Witness ==
    /\ op = "update_states"
    /\ grid.width = 3
    /\ grid.height = 3
    /\ Tags(old_cells) = <<"Dead", "Alive", "Dead", "Dead", "Alive", "Dead",
                           "Dead", "Alive", "Dead">>
    /\ Tags(grid.cells) = <<"Dead", "Dead", "Dead", "Alive", "Alive", "Alive",
                            "Dead", "Dead", "Dead">>

\* C2: right after new_empty, new_random or new_random_custom_glyphs the
\* population field is the number of Alive cells.
C2_PopulationAfterConstruction ==
    op \in {"new_empty", "new_random", "new_random_custom_glyphs"} =>
        grid.population = CountAlive(grid.cells)

\* C3: after update_states the population field is the number of cells tagged
\* Alive in the new cell sequence.
C3_PopulationAfterUpdate ==
    op = "update_states" => grid.population = CountAlive(grid.cells)

\* A step that changed the number of Alive cells and left some alive
C3_Witness ==
    /\ op = "update_states"
    /\ grid.population > 0
    /\ CountAlive(old_cells) # CountAlive(grid.cells)

\* C7: the cell sequence has width * height cells, after construction and
\* after every update_states.
C7_CellsLen == Len(grid.cells) = grid.width * grid.height

\* A 3x3 grid with live cells after a step
C7_Witness ==
    /\ op = "update_states"
    /\ grid.width = 3
    /\ grid.height = 3
    /\ Len(grid.cells) = 9
    /\ grid.population > 0

\* The grids a constructor can return that have the width, the height and
\* the cells of g
SameCells(g) ==
    {g2 \in {Default, new_empty(g.width, g.height)} :
        g2.width = g.width /\ g2.height = g.height /\ g2.cells = g.cells}
    \cup {[Default EXCEPT !.width = g.width, !.height = g.height, !.cells = g.cells] :
            c \in {c \in {<<Default.alive_glyph, Default.dead_glyph>>} :
                     g.cells \in generate_random_cells(g.width * g.height, c[1], c[2])}}
    \cup {[g EXCEPT !.alive_glyph = c[1], !.dead_glyph = c[2],
                    !.population = Cardinality({i \in 1..Len(g.cells) :
                                                   g.cells[i] = Alive(c[1])})] :
            c \in {c \in CustomGlyphs :
                     g.cells \in generate_random_cells(g.width * g.height, c[1], c[2])}}

\* C6 as claimed: update_states on any constructed grid with the same width,
\* height and cells as the grid of the call yields the same cell sequence.
C6_SameCellsSameResult ==
    op = "update_states" =>
        \A g2 \in SameCells(Before) : update_states(g2).val.cells = grid.cells

\* C6 as amended: update_states on any constructed grid with the same width,
\* height and cells yields the same tag at every index, and the same cell
\* sequence when the two grids also have the same alive_glyph and dead_glyph.
C6_SameCellsSameTags ==
    op = "update_states" =>
        \A g2 \in SameCells(Before) :
            \E r \in {update_states(g2)} :
                /\ ~r.panic
                /\ Tags(r.val.cells) = Tags(grid.cells)
                /\ (g2.alive_glyph = grid.alive_glyph /\ g2.dead_glyph = grid.dead_glyph)
                       => r.val.cells = grid.cells

\* A step of a grid that shares its cells with a grid of another dead_glyph,
\* where the two results have live and dead cells and differ in a glyph
C6_Witness ==
    /\ op = "update_states"
    /\ CountAlive(grid.cells) > 0
    /\ CountAlive(grid.cells) < Len(grid.cells)
    /\ \E g2 \in SameCells(Before) :
           /\ g2.dead_glyph # grid.dead_glyph
           /\ update_states(g2).val.cells # grid.cells

\* C5: get_neighbours_state counts the 8-neighbours inside the grid and no
\* others: alive + dead is the number of offsets that land in bounds (at most
\* 3 at a corner, at most 5 on an edge, 8 inside, 0 away from the grid) and
\* alive is the number of those neighbours tagged Alive.
C5_NeighboursInBounds ==
    op = "get_neighbours_state" =>
        LET w == grid.width
            h == grid.height
            x == arg.x
            y == arg.y
            n == Cardinality(NeighboursInBounds(w, h, x, y))
            onEdgeX == x = 0 \/ x = w - 1
            onEdgeY == y = 0 \/ y = h - 1
        IN  /\ ~ret.panic
            /\ ret.alive + ret.dead = n
            /\ ret.alive = Cardinality(AliveNeighbours(w, h, grid.cells, x, y))
            /\ (InBounds(w, h, x, y) /\ onEdgeX /\ onEdgeY) => n <= 3
            /\ (InBounds(w, h, x, y) /\ (onEdgeX \/ onEdgeY)) => n <= 5
            /\ (0 < x /\ x < w - 1 /\ 0 < y /\ y < h - 1) => n = 8
            /\ (\A o \in Offsets : ~InBounds(w, h, x + o[1], y + o[2])) =>
                   (ret.alive = 0 /\ ret.dead = 0)

\* The count at the left edge of a 3x3 grid whose right column is alive and
\* whose other cells are dead
C5_Witness ==
    /\ op = "get_neighbours_state"
    /\ grid.width = 3
    /\ grid.height = 3
    /\ arg = Point(0, 1)
    /\ Tags(grid.cells) = <<"Dead", "Dead", "Alive", "Dead", "Dead", "Alive",
                            "Dead", "Dead", "Alive">>
    /\ ret = NeighbourState(0, 5)

\* C8: contains(x, y) is true iff 0 <= x < width and 0 <= y < height; try_get
\* returns None without a panic when it is false and the cell at index
\* y * width + x when it is true.
C8_TryGet ==
    op = "try_get" =>
        /\ contains(grid, arg) <=> InBounds(grid.width, grid.height, arg.x, arg.y)
        /\ ~ret.panic
        /\ ~panicked
        /\ ret.val = IF InBounds(grid.width, grid.height, arg.x, arg.y)
                     THEN Some(grid.cells[arg.y * grid.width + arg.x + 1])
                     ELSE None

\* A lookup that finds the one live cell of a 3x3 grid, at (2, 1)
C8_Witness ==
    /\ op = "try_get"
    /\ grid.width = 3
    /\ grid.height = 3
    /\ arg = Point(2, 1)
    /\ CountAlive(grid.cells) = 1
    /\ ret = Ok(Some(Alive("X")))

\* C4: get_cell_state follows the transition table for either tag and every
\* alive count 0..8: Alive with 0-1 becomes Dead, with 2-3 stays Alive, with
\* 4-8 becomes Dead; Dead with 3 becomes Alive and Dead with any other count
\* is returned as it is; the resulting tag is the same for any glyph of the
\* cell and any dead count.
C4_TransitionTable ==
    op = "get_cell_state" =>
        LET cell == arg.cell
            alive == arg.state.alive
            result == ret.val
        IN  /\ (cell.tag = "Alive" /\ alive \in 0..1) => result.tag = "Dead"
            /\ (cell.tag = "Alive" /\ alive \in 2..3) => result.tag = "Alive"
            /\ (cell.tag = "Alive" /\ alive \in 4..8) => result.tag = "Dead"
            /\ (cell.tag = "Dead" /\ alive = 3) => result.tag = "Alive"
            /\ (cell.tag = "Dead" /\ alive # 3) => result = cell
            /\ \A c \in CellGlyphs : \A d \in 0..Len(ORTHO_PLUS_DIR) :
                   get_cell_state(grid, [cell EXCEPT !.glyph = c],
                                  NeighbourState(alive, d)).tag = result.tag

\* A live cell with two live neighbours stays alive, with the grid's glyph
\* in place of its own
C4_Witness ==
    /\ op = "get_cell_state"
    /\ arg.cell = Alive("X")
    /\ arg.state = NeighbourState(2, 6)
    /\ grid.alive_glyph = "A"
    /\ ret = Ok(Alive("A"))

\* C9: the loop of the usage example, started on any grid new_random(3, 3)
\* can return, reaches an iteration after which the population equals the
\* one recorded before it, and ends.
C9_DocLoopTerminates == <>(pc = "done")

\* The loop ended on a grid that still changes: equal populations, other cells
C9_Witness ==
    /\ pc = "done"
    /\ grid.population > 0
    /\ old_cells # grid.cells
    /\ update_states(grid).val.cells # grid.cells

\* C10: a grid constructed with width = 0 or height = 0 has no cells, and
\* its construction and any calls of update_states, try_get and to_string
\* end without a panic and leave the population 0.
C10_DegenerateGrid ==
    (grid.width = 0 \/ grid.height = 0) =>
        /\ Len(grid.cells) = 0
        /\ ~panicked
        /\ grid.population = 0
        /\ op = "update_states" => ret = [kind |-> "cells", val |-> <<>>]
        /\ op = "try_get" => ret = Ok(None)
        /\ op = "to_string" => ~ret.panic

\* The text of a grid of width 0 and height 3: three empty lines
C10_Witness ==
    /\ op = "to_string"
    /\ grid.width = 0
    /\ grid.height = 3
    /\ ret = Ok(<<"\n", "\n", "\n">>)

\* C11: the text of a grid, fresh or after any calls of update_states, is
\* height lines: line r is the glyphs of cells r*width .. (r+1)*width-1 from
\* left to right and then one newline, the rows from top to bottom.
C11_Rendering ==
    op = "to_string" =>
        /\ ~ret.panic
        /\ Len(ret.val) = grid.height * (grid.width + 1)
        /\ \A r \in 0..(grid.height - 1) :
              /\ \A c \in 0..(grid.width - 1) :
                    ret.val[r * (grid.width + 1) + c + 1]
                        = grid.cells[r * grid.width + c + 1].glyph
              /\ ret.val[r * (grid.width + 1) + grid.width + 1] = "\n"
        /\ Cardinality({i \in 1..Len(ret.val) : ret.val[i] = "\n"}) = grid.height

\* The text of a stepped 2x3 grid with custom glyphs, both states in it
C11_Witness ==
    /\ op = "to_string"
    /\ grid.width = 2
    /\ grid.height = 3
    /\ grid.alive_glyph = "A"
    /\ grid.dead_glyph = "D"
    /\ grid.population = 4
    /\ ret = Ok(<<"A", "A", "\n", "A", "A", "\n", "D", "D", "\n">>)

\* C12: a call of update_states leaves width, height, alive_glyph and
\* dead_glyph as they were, for every grid and every call in a row of calls;
\* cells and population are the only fields it writes.
C12_Frame ==
    [][op' = "update_states" =>
          /\ DOMAIN grid' = DOMAIN grid
          /\ grid'.width = grid.width
          /\ grid'.height = grid.height
          /\ grid'.alive_glyph = grid.alive_glyph
          /\ grid'.dead_glyph = grid.dead_glyph]_vars

\* A call that changed the cells of a 2x4 grid with custom glyphs
C12_Witness ==
    /\ op = "update_states"
    /\ grid.width = 2
    /\ grid.height = 4
    /\ grid.alive_glyph = "A"
    /\ grid.dead_glyph = "D"
    /\ grid.cells # old_cells
    /\ grid.population # CountAlive(old_cells)

\* C13: in every grid of new_empty, new_random and new_random_custom_glyphs,
\* and after any number of update_states, each Alive cell carries alive_glyph
\* and each Dead cell dead_glyph, so the cells equal to Alive(alive_glyph)
\* are exactly the cells tagged Alive.
C13_GlyphConsistency ==
    /\ \A i \in 1..Len(grid.cells) :
          grid.cells[i].glyph = IF grid.cells[i].tag = "Alive"
                                THEN grid.alive_glyph
                                ELSE grid.dead_glyph
    /\ {i \in 1..Len(grid.cells) : grid.cells[i] = Alive(grid.alive_glyph)}
           = {i \in 1..Len(grid.cells) : grid.cells[i].tag = "Alive"}
    /\ calculate_population(grid) = CountAlive(grid.cells)

\* A stepped grid with custom glyphs where cells were born and cells died
C13_Witness ==
    /\ op = "update_states"
    /\ grid.alive_glyph = "A"
    /\ grid.dead_glyph = "D"
    /\ \E i \in 1..Len(old_cells) :
          old_cells[i].tag = "Dead" /\ grid.cells[i] = Alive("A")
    /\ \E i \in 1..Len(old_cells) :
          old_cells[i].tag = "Alive" /\ grid.cells[i] = Dead("D")

\* C14: every cell of new_empty(width, height) is Dead and its population is
\* 0, and the same holds after any number of update_states: each call returns
\* the cells it started from.
C14_EmptyFixedPoint ==
    /\ ~panicked
    /\ Len(grid.cells) = grid.width * grid.height
    /\ \A i \in 1..Len(grid.cells) : grid.cells[i].tag = "Dead"
    /\ grid.population = 0
    /\ op = "update_states" =>
          /\ grid.cells = old_cells
          /\ ret = [kind |-> "cells", val |-> old_cells]

\* A 3x3 grid of new_empty after a call of update_states
C14_Witness ==
    /\ op = "update_states"
    /\ grid.width = 3
    /\ grid.height = 3
    /\ grid.cells = [i \in 1..9 |-> Dead(" ")]
    /\ grid.population = 0

\* C15: for every index i below width * height, pos(i) is a point of the
\* grid and idx(pos(i)) is i; for every point p of the grid, idx(p) is
\* p.y * width + p.x, below the number of cells, pos(idx(p)) is p, and the
\* indexed access grid[p] is in range and reads that cell.
C15_RowMajorBijection ==
    /\ (op = "pos" /\ arg.i < grid.width * grid.height) =>
          /\ ~ret.panic
          /\ InBounds(grid.width, grid.height, ret.val.pos.x, ret.val.pos.y)
          /\ ret.val.idx = arg.i
    /\ (op = "idx" /\ InBounds(grid.width, grid.height, arg.p.x, arg.p.y)) =>
          /\ ret.idx = arg.p.y * grid.width + arg.p.x
          /\ ret.idx < Len(grid.cells)
          /\ ret.pos = Ok(arg.p)
          /\ ret.cell = Ok(grid.cells[arg.p.y * grid.width + arg.p.x + 1])

\* The last cell of a 2x4 grid, from the point to the index and back
C15_Witness ==
    /\ op = "idx"
    /\ grid.width = 2
    /\ grid.height = 4
    /\ arg.p = Point(1, 3)
    /\ ret.idx = 7
    /\ ret.pos = Ok(Point(1, 3))

\* The calls of update_states in the loop iteration that has just ended
UpdatesInIteration == CountCalls(ret.calls, "update_states")

\* C16: at the end of every iteration of App::run in which run is set,
\* update_states has been called exactly once in that iteration, whatever
\* event was handled in it; with run clear and neither 'n' nor '?' handled
\* it has not been called and the grid is as the iteration found it.
C16_OncePerIteration ==
    op = "auto_advance" =>
        /\ app.run => UpdatesInIteration = 1
        /\ (~app.run /\ arg.e \notin {"n", "?"}) =>
              /\ UpdatesInIteration = 0
              /\ grid.cells = old_cells

\* C16, as the code has it: at the end of every iteration of App::run the
\* calls of update_states made in it are one by the auto-advance if run is
\* set when the loop tests it after the events, and one more by the key if
\* 'n' or '?' was handled: two with run set and 'n' or '?', one with run set
\* and any other event or none; with run clear and neither key, none, and
\* the grid is as the iteration found it.
C16_AutoAdvanceOnce ==
    op = "auto_advance" =>
        /\ ~panicked
        /\ UpdatesInIteration
               = (IF app.run THEN 1 ELSE 0) + (IF arg.e \in {"n", "?"} THEN 1 ELSE 0)
        /\ CountCalls(ret.calls, "cycle")
               = (IF app.run THEN 1 ELSE 0) + (IF arg.e = "n" THEN 1 ELSE 0)
        /\ UpdatesInIteration = 0 => grid.cells = old_cells

\* An iteration with run set in which 'n' was handled: two generations on
C16_Witness ==
    /\ op = "auto_advance"
    /\ app.run
    /\ arg.e = "n"
    /\ UpdatesInIteration = 2
    /\ app.cycles = 2
    /\ grid.cells # old_cells

\* C17: cycles is the number of calls of cycle ('n' or the auto-advance)
\* since the App was made or '?' last handled: handling 'n' adds 1 to cycles
\* and takes the grid one generation on, '?' sets cycles to 0, and 'q', 'r',
\* 's' and any other key leave cycles and the grid as they were.
C17_CyclesCounter ==
    [][/\ app.cycles = ret.cycled
       /\ app'.cycles = ret'.cycled
       /\ (op' \in {"handle_key_event", "handle_events"} /\ arg'.e = "n") =>
             /\ ~panicked'
             /\ app'.cycles = app.cycles + 1
             /\ Tags(grid'.cells)
                    = Successor(grid.width, grid.height, grid.cells)
             /\ app'.grid = grid'
       /\ (op' \in {"handle_key_event", "handle_events"} /\ arg'.e = "?") =>
             app'.cycles = 0
       /\ (op' \in {"handle_key_event", "handle_events"}
               /\ arg'.e \in {"q", "r", "s", "x"}) =>
             /\ app'.cycles = app.cycles
             /\ app'.grid = app.grid
             /\ grid' = grid
       /\ op' = "auto_advance" =>
             /\ app'.cycles = app.cycles + (IF app.run THEN 1 ELSE 0)
             /\ Tags(grid'.cells)
                    = IF app.run
                      THEN Successor(grid.width, grid.height, grid.cells)
                      ELSE Tags(grid.cells)]_vars

\* 'n' handled by a direct call on the 5x1 grid that '?' left with its three
\* middle cells alive: one generation on the middle cell alone is alive (a
\* second generation would kill it), and cycles is 1
C17_Witness ==
    /\ op = "handle_key_event"
    /\ arg.e = "n"
    /\ app.cycles = 1
    /\ grid.width = 5
    /\ grid.height = 1
    /\ Tags(old_cells) = <<"Dead", "Alive", "Alive", "Alive", "Dead">>
    /\ Tags(grid.cells) = <<"Dead", "Dead", "Alive", "Dead", "Dead">>

\* C18: handling 'q' sets exit; no step of any later key, nor any other
\* step, clears it; and with exit set App::run makes no draw and no poll:
\* the loop's test ends it, whatever keys were handled before.
C18_QuitIsFinal ==
    [][/\ ((op' \in {"handle_key_event", "handle_events"} /\ arg'.e = "q")
               => app'.exit)
       /\ app.exit => app'.exit
       /\ app'.exit => pc' \notin {"draw", "events"}
       /\ (pc = "while" /\ app.exit) => (pc' = "idle" /\ op' = "run_return")]_vars

\* run has returned after 'q' was handled in an iteration with run set,
\* some generations after a '?'
C18_Witness ==
    /\ op = "run_return"
    /\ pc = "idle"
    /\ app.exit
    /\ app.run
    /\ app.cycles = 3
    /\ app.population > 0

====
